---- MODULE Spec2Model ----
(***************************************************************************)
(* Model of the automated-action gate of the SRE agent                     *)
(* (src/agentic-sre-demo/sre_agent.py, class ActionPolicies) and of the    *)
(* two agents' execute_automated_action entry points, of the insight       *)
(* cache (class InsightCache) and of the permission-gated endpoints of     *)
(* src/agentic-sre-demo/sre_agent_api.py.                                  *)
(*                                                                         *)
(* Time is counted in ticks of half an hour; confidences and the           *)
(* threshold are counted in hundredths (0.8 is 80).  A Python dict is a    *)
(* function whose domain is the set of keys present; an f-string is the    *)
(* tuple of its parts.                                                     *)
(***************************************************************************)
EXTENDS Integers, Sequences, FiniteSets, TLC

\* config          ActionPolicies.config, the SREConfig the engine reads
\* now             the wall clock, datetime.now()
\* action_history  ActionPolicies.action_history
\* pc              where each caller's call of execute_action stands
\* req             the (action_type, params) of each caller's call
\* ret             what the call returned
\* invoked         the handlers the call awaited
\* evaluated       the checks can_execute_action evaluated for the call
\* result          the local result of execute_action between handler and append
\* via             the method through which the call was made
\* admissions      the clock readings at which can_execute_action returned True
\* cache           InsightCache._cache
\* got             the last call made on the insight cache and what it returned
\* served          the last read-style operation of the agent and how it was served
\* token           the payload of the access token the API client holds
\* response        the last request made to the API and its response
VARIABLES config, now, action_history, pc, req, ret, invoked, evaluated, result, via,
          admissions, cache, got, served, token, response

vars == <<config, now, action_history, pc, req, ret, invoked, evaluated, result, via,
          admissions, cache, got, served, token, response>>

\* the state of the policy engine and of its callers
policyVars == <<config, action_history, pc, req, ret, invoked, evaluated, result, via,
                admissions>>

\* the state of the insight cache and of the agent operations that use it
cacheVars == <<cache, got, served>>

\* the state of the API and of its client
apiVars == <<token, response>>

(* ------------------------------ bounds --------------------------------- *)
\* last tick of the clock
MaxTime == 2
\* the model stops admitting calls once this many have been admitted
MaxAdmitted == 2

\* the longest ttl an insight is stored with, in ticks
MaxTtl == 2
\* the most words a request text has
MaxWords == 4

(* ------------------------- program constants --------------------------- *)
\* timedelta(hours=1), in ticks
Hour == 2
\* SREConfig.auto_rollback_threshold = 0.8
DefaultThreshold == 80
\* SREConfig.max_auto_actions_per_incident = 3
DefaultMaxActions == 3
\* params.get("confidence", 0.0)
DefaultConfidence == 0
\* ACCESS_TOKEN_EXPIRE_MINUTES = 30, in ticks
TokenLifetime == 1
\* the ttl the agent stores its insights with: 1800, 3600 and 7200 seconds
HealthTtl == 1
TrendTtl == 2
IncidentTtl == 4

jira_base_url == "https://jira.company.com"
slack_webhook_url == "https://hooks.slack.com/services/..."

ActionType ==
    { "summarize_incident", "propose_remediation", "trigger_auto_rollback",
      "open_jira_ticket", "open_slack_channel", "scale_service",
      "restart_service", "update_config" }

(* ------------------------------ inputs --------------------------------- *)
\* a parameter value whose formatting inside an f-string raises
Unprintable == "<unprintable>"
FormatError == "cannot format value"

NoParams == [k \in {} |-> 0]

\* params with a confidence entry added
WithConfidence(p, c) == p @@ ("confidence" :> c)

Request(a, p) == [action_type |-> a, params |-> p]

\* the parameters each action type is usually called with
BaseParams(a) ==
    CASE a \in {"summarize_incident"} -> [incident_id |-> "INC-001", severity |-> "high"]
      [] a = "trigger_auto_rollback" -> [deployment_id |-> "deploy-42"]
      [] a \in {"open_jira_ticket", "open_slack_channel"} -> [incident_id |-> "INC-001"]
      [] OTHER -> NoParams

\* every action type with a confidence below the threshold, and two requests
\* that carry no confidence
LowRequests ==
    { Request(a, WithConfidence(BaseParams(a), 50)) : a \in ActionType }
    \cup { Request(a, BaseParams(a)) : a \in {"summarize_incident", "restart_service"} }

\* requests whose confidence passes: one on the threshold, one whose handler
\* raises, one whose action type has no handler
PassingRequests ==
    { Request("summarize_incident", WithConfidence(BaseParams("summarize_incident"), DefaultThreshold)),
      Request("open_slack_channel", WithConfidence([incident_id |-> Unprintable], 100)),
      Request("scale_service", WithConfidence(NoParams, 100)) }

Requests == LowRequests \cup PassingRequests

\* the deployments a rollback may name
Deployments == {"deploy-42", "deploy-43"}

\* requests with full confidence that reach the if/elif chain: rollbacks with
\* and without a deployment_id, a ticket, and the three action types the
\* chain has no branch for
DispatchRequests ==
    { Request("trigger_auto_rollback", WithConfidence([deployment_id |-> d], 100)) :
        d \in Deployments }
    \cup { Request("trigger_auto_rollback", WithConfidence(NoParams, 100)),
           Request("open_jira_ticket", WithConfidence(BaseParams("open_jira_ticket"), 100)) }
    \cup { Request(a, WithConfidence(NoParams, 100)) :
             a \in {"scale_service", "restart_service", "update_config"} }

\* the requests of two concurrent callers
StepRequests ==
    { Request("summarize_incident", WithConfidence(BaseParams("summarize_incident"), 100)),
      Request("summarize_incident", WithConfidence(BaseParams("summarize_incident"), 50)),
      Request("open_slack_channel", WithConfidence([incident_id |-> Unprintable], 100)) }

Configs ==
    [ auto_remediation_enabled : BOOLEAN,
      auto_rollback_threshold : {DefaultThreshold},
      max_auto_actions_per_incident : 1..DefaultMaxActions ]

\* configurations with remediation enabled and a threshold of 0.0, 0.01 or
\* the default
WindowConfigs ==
    [ auto_remediation_enabled : {TRUE},
      auto_rollback_threshold : {0, 1, DefaultThreshold},
      max_auto_actions_per_incident : {1, 2} ]

\* the SREConfig() that main() constructs
DefaultConfig ==
    [ auto_remediation_enabled |-> TRUE,
      auto_rollback_threshold |-> DefaultThreshold,
      max_auto_actions_per_incident |-> DefaultMaxActions ]

MainCaller == 1
Callers == {1, 2}

NoResult == [pending |-> TRUE]

\* Python's None
None == "None"

\* self._cache = {}
NoInsights == [k \in {} |-> None]

\* no call made yet
NoCall == [op |-> "none"]

\* the client holds no token
NoToken == [sub |-> None]

(* ------------------------------ helpers -------------------------------- *)
\* dict.get(key, default)
Get(params, key, default) == IF key \in DOMAIN params THEN params[key] ELSE default

\* the records of the trailing hour, read at time t
\* the rate limit counting every record ever appended
RecentActions_Lifetime(t) == action_history

\* the rate limit counting only the records of successful actions
RecentActions_Successful(t) ==
    SelectSeq(action_history, LAMBDA a : t - a.timestamp < Hour /\ a.result.success)

\* recent_actions: the records less than one hour old at t
RecentActions(t) == SelectSeq(action_history, LAMBDA a : t - a.timestamp < Hour)

\* can_execute_action without its confidence check
AdmissionCheck_NoConfidence(action_type, confidence, t) ==
    IF ~config.auto_remediation_enabled
    THEN [allowed |-> FALSE, evaluated |-> <<"auto_remediation_enabled">>]
    ELSE IF Len(RecentActions(t)) >= config.max_auto_actions_per_incident
    THEN [allowed |-> FALSE,
          evaluated |-> <<"auto_remediation_enabled", "confidence", "rate_limit">>]
    ELSE [allowed |-> TRUE,
          evaluated |-> <<"auto_remediation_enabled", "confidence", "rate_limit">>]

\* can_execute_action without its kill-switch check
AdmissionCheck_NoKillSwitch(action_type, confidence, t) ==
    IF confidence < config.auto_rollback_threshold
    THEN [allowed |-> FALSE, evaluated |-> <<"auto_remediation_enabled", "confidence">>]
    ELSE IF Len(RecentActions(t)) >= config.max_auto_actions_per_incident
    THEN [allowed |-> FALSE,
          evaluated |-> <<"auto_remediation_enabled", "confidence", "rate_limit">>]
    ELSE [allowed |-> TRUE,
          evaluated |-> <<"auto_remediation_enabled", "confidence", "rate_limit">>]

\* can_execute_action counting the window before it looks at the confidence
AdmissionCheck_RateLimitFirst(action_type, confidence, t) ==
    IF ~config.auto_remediation_enabled
    THEN [allowed |-> FALSE, evaluated |-> <<"auto_remediation_enabled">>]
    ELSE IF Len(RecentActions(t)) >= config.max_auto_actions_per_incident
    THEN [allowed |-> FALSE, evaluated |-> <<"auto_remediation_enabled", "rate_limit">>]
    ELSE IF confidence < config.auto_rollback_threshold
    THEN [allowed |-> FALSE,
          evaluated |-> <<"auto_remediation_enabled", "rate_limit", "confidence">>]
    ELSE [allowed |-> TRUE,
          evaluated |-> <<"auto_remediation_enabled", "rate_limit", "confidence">>]

\* can_execute_action: the checks it evaluates, in order, and its answer
AdmissionCheck(action_type, confidence, t) ==
    IF ~config.auto_remediation_enabled
    THEN [allowed |-> FALSE, evaluated |-> <<"auto_remediation_enabled">>]
    ELSE IF confidence < config.auto_rollback_threshold
    THEN [allowed |-> FALSE, evaluated |-> <<"auto_remediation_enabled", "confidence">>]
    ELSE IF Len(RecentActions(t)) >= config.max_auto_actions_per_incident
    THEN [allowed |-> FALSE,
          evaluated |-> <<"auto_remediation_enabled", "confidence", "rate_limit">>]
    ELSE [allowed |-> TRUE,
          evaluated |-> <<"auto_remediation_enabled", "confidence", "rate_limit">>]

can_execute_action(action_type, confidence, t) ==
    AdmissionCheck(action_type, confidence, t).allowed

Blocked == [success |-> FALSE, reason |-> "Action blocked by policies"]

Returned(r) == [raised |-> FALSE, result |-> r]
Raised(msg) == [raised |-> TRUE, error |-> msg]

summarize_incident(params) ==
    IF Get(params, "incident_id", "unknown") = Unprintable
    THEN Raised(FormatError)
    ELSE Returned([ success |-> TRUE,
                    summary |-> <<"Incident summary for ", Get(params, "incident_id", "unknown")>>,
                    severity |-> Get(params, "severity", "medium"),
                    affected_services |-> Get(params, "affected_services", <<>>) ])

propose_remediation(params) ==
    Returned([ success |-> TRUE,
               remediation_steps |-> << "1. Restart affected service",
                                        "2. Scale up resources if needed",
                                        "3. Update monitoring thresholds" >>,
               estimated_time |-> "15 minutes" ])

\* _trigger_auto_rollback reading the key "deployment" instead
trigger_auto_rollback_WrongKey(params) ==
    Returned([ success |-> TRUE,
               rollback_target |-> Get(params, "deployment", None),
               status |-> "rollback_initiated" ])

trigger_auto_rollback(params) ==
    Returned([ success |-> TRUE,
               rollback_target |-> Get(params, "deployment_id", "None"),
               status |-> "rollback_initiated" ])

\* the handler reads the clock twice: t1 for ticket_id, t2 for url
open_jira_ticket(params, t1, t2) ==
    Returned([ success |-> TRUE,
               ticket_id |-> <<"JIRA-", t1>>,
               url |-> <<jira_base_url, "/browse/", "JIRA-", t2>> ])

open_slack_channel(params) ==
    IF Get(params, "incident_id", "unknown") = Unprintable
    THEN Raised(FormatError)
    ELSE Returned([ success |-> TRUE,
                    channel_name |-> <<"incident-", Get(params, "incident_id", "unknown")>>,
                    webhook_url |-> slack_webhook_url ])

UnknownAction == [success |-> FALSE, reason |-> "Unknown action type"]

\* the handler the if/elif chain of execute_action selects, "" when none
HandlerOf(action_type) ==
    IF action_type \in { "summarize_incident", "propose_remediation",
                         "trigger_auto_rollback", "open_jira_ticket",
                         "open_slack_channel" }
    THEN <<action_type>>
    ELSE <<>>

\* the if/elif chain of execute_action
Dispatch(action_type, params, t1, t2) ==
    CASE action_type = "summarize_incident" -> summarize_incident(params)
      [] action_type = "propose_remediation" -> propose_remediation(params)
      [] action_type = "trigger_auto_rollback" -> trigger_auto_rollback(params)
      [] action_type = "open_jira_ticket" -> open_jira_ticket(params, t1, t2)
      [] action_type = "open_slack_channel" -> open_slack_channel(params)
      [] OTHER -> Returned(UnknownAction)

\* the record execute_action appends
ActionRecord(action_type, params, res, t) ==
    [action_type |-> action_type, params |-> params, result |-> res, timestamp |-> t]

\* the except branch of execute_action
Failure(msg) == [success |-> FALSE, error |-> msg]

(* ------------------------------- state --------------------------------- *)
\* the state after construction, with configuration cfg and the client
\* holding token payload tk
InitWith(cfg, tk) ==
    /\ config = cfg
    /\ now = 0
    /\ action_history = <<>>
    /\ pc = [c \in Callers |-> "idle"]
    /\ req = [c \in Callers |-> Request("summarize_incident", NoParams)]
    /\ ret = [c \in Callers |-> NoResult]
    /\ invoked = [c \in Callers |-> <<>>]
    /\ evaluated = [c \in Callers |-> <<>>]
    /\ result = [c \in Callers |-> NoResult]
    /\ via = [c \in Callers |-> "none"]
    /\ admissions = <<>>
    /\ cache = NoInsights
    /\ got = NoCall
    /\ served = NoCall
    /\ token = tk
    /\ response = NoCall

Init == \E cfg \in Configs : InitWith(cfg, NoToken)

TypeOK ==
    /\ config \in Configs \cup WindowConfigs
    /\ now \in 0..MaxTime
    /\ \A i \in 1..Len(action_history) :
          /\ action_history[i].action_type \in ActionType
          /\ action_history[i].timestamp \in 0..now
          /\ DOMAIN action_history[i] = {"action_type", "params", "result", "timestamp"}
    /\ pc \in [Callers -> {"idle", "proposed", "admitted", "handled", "executed", "rejected"}]
    /\ \A c \in Callers : req[c].action_type \in ActionType
    /\ \A c \in Callers : Len(invoked[c]) <= 1 /\ Len(evaluated[c]) <= 3
    /\ via \in [Callers -> {"none", "ActionPolicies.execute_action",
                            "SREAgent.execute_automated_action",
                            "MockSREAgent.execute_automated_action"}]
    /\ \A i \in 1..Len(admissions) : admissions[i] \in 0..now
    /\ DOMAIN cache \subseteq {"incident_investigation", "trend_analysis", "health_check"}
    /\ \A k \in DOMAIN cache :
          /\ DOMAIN cache[k] = {"data", "timestamp", "ttl"}
          /\ cache[k].timestamp[2] \in 0..now
    /\ got.op \in {"none", "store_insight", "get_insight", "get_all_insights"}
    /\ served = NoCall \/ (served.at \in 0..now /\ served.invoked \in BOOLEAN)
    /\ token = [sub |-> None] \/ token.exp \in 1..(now + 1)
    /\ \/ response.op \in {"none", "request", "classify"}
       \/ response.status_code \in {200, 400, 401, 403, 500}

\* the clock advances
Tick ==
    /\ now < MaxTime
    /\ now' = now + 1
    /\ UNCHANGED <<policyVars, cacheVars, apiVars>>

\* the clock readings of one admitted call: t1 and t2 by the handler (only
\* _open_jira_ticket reads the clock), t3 for the record
ClockReads(action_type, t1, t2, t3) ==
    /\ now <= t1 /\ t1 <= t2 /\ t2 <= t3 /\ t3 <= MaxTime /\ t3 <= now + 1
    /\ action_type # "open_jira_ticket" => t1 = now /\ t2 = now

\* what execute_action returns: the early return of a blocked call, the
\* except branch, or the handler's result
ReturnValue(allowed, out) ==
    IF ~allowed THEN Blocked
    ELSE IF out.raised THEN Failure(out.error)
    ELSE out.result

\* execute_action recording the blocked calls too
HistoryAfter_RecordsBlocked(allowed, r, out, t) ==
    IF allowed /\ out.raised
    THEN action_history
    ELSE Append(action_history,
                ActionRecord(r.action_type, r.params, ReturnValue(allowed, out), t))

\* the append dropping the records that have left the window
HistoryAfter_Pruned(allowed, r, out, t) ==
    IF allowed /\ ~out.raised
    THEN Append(RecentActions(t), ActionRecord(r.action_type, r.params, out.result, t))
    ELSE action_history

\* action_history after a call: the append is reached only by an admitted
\* call whose handler returned
HistoryAfter(allowed, r, out, t) ==
    IF allowed /\ ~out.raised
    THEN Append(action_history, ActionRecord(r.action_type, r.params, out.result, t))
    ELSE action_history

\* ActionPolicies.execute_action, one whole call by caller c through entry
\* point e: the admission check reads the clock at now
ExecuteAction(e, c, r) ==
    LET adm == AdmissionCheck(r.action_type, Get(r.params, "confidence", DefaultConfidence), now)
    IN  \E t1, t2, t3 \in now..(now + 1) :
          LET out == Dispatch(r.action_type, r.params, t1, t2)
          IN  /\ IF adm.allowed
                 THEN /\ Len(admissions) < MaxAdmitted
                      /\ ClockReads(r.action_type, t1, t2, t3)
                      /\ out.raised => t3 = t2
                 ELSE t1 = now /\ t2 = now /\ t3 = now
              /\ req' = [req EXCEPT ![c] = r]
              /\ via' = [via EXCEPT ![c] = e]
              /\ evaluated' = [evaluated EXCEPT ![c] = adm.evaluated]
              /\ result' = [result EXCEPT ![c] = NoResult]
              /\ pc' = [pc EXCEPT ![c] = IF adm.allowed THEN "executed" ELSE "rejected"]
              /\ invoked' = [invoked EXCEPT ![c] =
                                IF adm.allowed THEN HandlerOf(r.action_type) ELSE <<>>]
              /\ admissions' = IF adm.allowed THEN Append(admissions, now) ELSE admissions
              /\ action_history' = HistoryAfter(adm.allowed, r, out, t3)
              /\ ret' = [ret EXCEPT ![c] = ReturnValue(adm.allowed, out)]
              /\ now' = t3
              /\ UNCHANGED <<config, cacheVars, apiVars>>

\* a direct call of ActionPolicies.execute_action
execute_action ==
    \E r \in Requests : ExecuteAction("ActionPolicies.execute_action", MainCaller, r)

\* SREAgent.execute_automated_action hands the request to its ActionPolicies
SREAgent_execute_automated_action ==
    \E r \in Requests : ExecuteAction("SREAgent.execute_automated_action", MainCaller, r)

\* the result MockSREAgent.execute_automated_action builds itself
MockResult(action_type, params) ==
    CASE action_type = "summarize_incident" ->
            [ success |-> TRUE,
              summary |-> <<"Incident ", Get(params, "incident_id", "unknown"), " summary generated">>,
              severity |-> Get(params, "severity", "medium"),
              affected_services |-> Get(params, "affected_services", <<>>) ]
      [] action_type = "propose_remediation" ->
            [ success |-> TRUE,
              remediation_steps |-> << "1. Restart affected service",
                                       "2. Scale up resources if needed",
                                       "3. Update monitoring thresholds" >>,
              estimated_time |-> "15 minutes" ]
      [] action_type = "trigger_auto_rollback" ->
            [ success |-> TRUE,
              rollback_target |-> Get(params, "deployment_id", "None"),
              status |-> "rollback_initiated" ]
      [] OTHER ->
            [ success |-> TRUE,
              action_executed |-> action_type,
              result |-> "Action completed successfully" ]

\* MockSREAgent.execute_automated_action overrides the method of SREAgent
MockSREAgent_execute_automated_action ==
    \E r \in Requests :
        /\ req' = [req EXCEPT ![MainCaller] = r]
        /\ via' = [via EXCEPT ![MainCaller] = "MockSREAgent.execute_automated_action"]
        /\ pc' = [pc EXCEPT ![MainCaller] = "executed"]
        /\ ret' = [ret EXCEPT ![MainCaller] = MockResult(r.action_type, r.params)]
        /\ invoked' = [invoked EXCEPT ![MainCaller] = <<>>]
        /\ evaluated' = [evaluated EXCEPT ![MainCaller] = <<>>]
        /\ result' = [result EXCEPT ![MainCaller] = NoResult]
        /\ UNCHANGED <<config, now, action_history, admissions, cacheVars, apiVars>>

\* the operator throws the kill switch of the configuration the engine reads
DisableAutoRemediation ==
    /\ config.auto_remediation_enabled
    /\ config' = [config EXCEPT !.auto_remediation_enabled = FALSE]
    /\ UNCHANGED <<now, action_history, pc, req, ret, invoked, evaluated, result, via,
                   admissions, cacheVars, apiVars>>

\* direct calls of the policy engine
Next ==
    \/ Tick
    \/ DisableAutoRemediation
    \/ execute_action

Spec == Init /\ [][Next]_vars

\* calls through the two agents
AgentNext ==
    \/ Tick
    \/ SREAgent_execute_automated_action
    \/ MockSREAgent_execute_automated_action

AgentSpec == Init /\ [][AgentNext]_vars

\* a call of ActionPolicies.execute_action that passes the confidence check
dispatch_action ==
    \E r \in DispatchRequests : ExecuteAction("ActionPolicies.execute_action", MainCaller, r)

\* calls that exercise the if/elif chain and the handlers
DispatchNext ==
    \/ Tick
    \/ dispatch_action

\* the engine of an agent built from the default configuration
DispatchInit == Init /\ config = DefaultConfig

DispatchSpec == DispatchInit /\ [][DispatchNext]_vars

\* requests against the rate limit: two incidents, an action type without a
\* handler (its record is a failure), a handler that raises, a request that
\* carries no confidence
WindowRequests ==
    { Request("summarize_incident",
              WithConfidence([incident_id |-> i, severity |-> "high"], 100)) :
        i \in {"INC-001", "INC-002"} }
    \cup { Request("scale_service", WithConfidence(NoParams, 100)),
           Request("open_slack_channel", WithConfidence([incident_id |-> Unprintable], 100)),
           Request("summarize_incident", BaseParams("summarize_incident")) }

\* ActionPolicies.execute_action called while the window slides
execute_action_in_window ==
    \E r \in WindowRequests : ExecuteAction("ActionPolicies.execute_action", MainCaller, r)

WindowNext ==
    \/ Tick
    \/ execute_action_in_window

\* the engine under small limits and thresholds, remediation enabled
WindowInit == \E cfg \in WindowConfigs : InitWith(cfg, NoToken)

WindowSpec == WindowInit /\ [][WindowNext]_vars

(* --------------------------- InsightCache ------------------------------ *)
\* the insight types the agent stores under
InsightTypes == {"incident_investigation", "trend_analysis"}

\* the data of an insight
Payloads == {"findings-1", "findings-2"}

\* the ttl of a store, timedelta(seconds=ttl) counted in ticks
Ttls == 0..MaxTtl

\* datetime.isoformat() and datetime.fromisoformat(): the clock reading as
\* text and back
isoformat(t) == <<"iso", t>>
fromisoformat(s) == s[2]

\* the dict store_insight puts under the key
InsightEntry(data, ttl, t) == [data |-> data, timestamp |-> isoformat(t), ttl |-> ttl]

\* store_insight leaving the timestamp of an entry it replaces
StoreInsight_KeepsStamp(insight_type, data, ttl, t) ==
    [ k \in DOMAIN cache \cup {insight_type} |->
        IF k # insight_type THEN cache[k]
        ELSE IF k \in DOMAIN cache
        THEN [data |-> data, timestamp |-> cache[k].timestamp, ttl |-> ttl]
        ELSE InsightEntry(data, ttl, t) ]

\* self._cache after self._cache[insight_type] = {...}, the clock read at t
StoreInsight(insight_type, data, ttl, t) ==
    [ k \in DOMAIN cache \cup {insight_type} |->
        IF k = insight_type THEN InsightEntry(data, ttl, t) ELSE cache[k] ]

\* get_insight returning the data of the entries that have expired
GetInsight_InvertedExpiry(insight_type, t) ==
    IF /\ insight_type \in DOMAIN cache
       /\ t - fromisoformat(cache[insight_type].timestamp) >= cache[insight_type].ttl
    THEN cache[insight_type].data
    ELSE None

\* get_insight taking an entry whose age equals its ttl as live
GetInsight_BoundaryLive(insight_type, t) ==
    IF /\ insight_type \in DOMAIN cache
       /\ t - fromisoformat(cache[insight_type].timestamp) <= cache[insight_type].ttl
    THEN cache[insight_type].data
    ELSE None

\* what get_insight returns, the clock read at t
GetInsight(insight_type, t) ==
    IF /\ insight_type \in DOMAIN cache
       /\ t - fromisoformat(cache[insight_type].timestamp) < cache[insight_type].ttl
    THEN cache[insight_type].data
    ELSE None

\* get_insight deleting the entry it finds expired
CacheAfterGet_EvictsExpired(insight_type, t) ==
    IF /\ insight_type \in DOMAIN cache
       /\ t - fromisoformat(cache[insight_type].timestamp) >= cache[insight_type].ttl
    THEN [k \in DOMAIN cache \ {insight_type} |-> cache[k]]
    ELSE cache

\* self._cache after get_insight: the method assigns nothing
CacheAfterGet(insight_type, t) == cache

\* get_all_insights leaving out the expired entries
GetAllInsights_LiveOnly(t) ==
    [ k \in {j \in DOMAIN cache :
                t - fromisoformat(cache[j].timestamp) < cache[j].ttl} |-> cache[k] ]

\* what get_all_insights returns: self._cache
GetAllInsights(t) == cache

\* what a store finds under the key: nothing, or a payload that was live or
\* had expired at time t
Replaced(insight_type, t) ==
    IF insight_type \in DOMAIN cache
    THEN [ data |-> cache[insight_type].data,
           expired |-> t - fromisoformat(cache[insight_type].timestamp)
                         >= cache[insight_type].ttl ]
    ELSE NoCall

\* InsightCache.store_insight; the call record keeps what the store replaced
store_insight ==
    \E k \in InsightTypes, data \in Payloads, ttl \in Ttls :
        /\ cache' = StoreInsight(k, data, ttl, now)
        /\ got' = [ op |-> "store_insight", key |-> k, data |-> data, ttl |-> ttl,
                    replaced |-> Replaced(k, now) ]
        /\ UNCHANGED <<now, served, policyVars, apiVars>>

\* InsightCache.get_insight
get_insight ==
    \E k \in InsightTypes :
        /\ got' = [op |-> "get_insight", key |-> k, value |-> GetInsight(k, now)]
        /\ cache' = CacheAfterGet(k, now)
        /\ UNCHANGED <<now, served, policyVars, apiVars>>

\* InsightCache.get_all_insights
get_all_insights ==
    /\ got' = [op |-> "get_all_insights", value |-> GetAllInsights(now)]
    /\ UNCHANGED <<cache, now, served, policyVars, apiVars>>

\* calls on the insight cache while the clock runs
CacheNext ==
    \/ Tick
    \/ store_insight
    \/ get_insight
    \/ get_all_insights

CacheSpec == Init /\ [][CacheNext]_vars

(* ------------------- SREAgent: read-style operations -------------------- *)
\* the operations of the agent that store their result as an insight
ReadStyleOps == {"health_check", "investigate_incident", "analyze_trends"}

\* the key each operation stores under
InsightTypeOf(op) ==
    CASE op = "health_check" -> "health_check"
      [] op = "investigate_incident" -> "incident_investigation"
      [] op = "analyze_trends" -> "trend_analysis"

\* the ttl each operation stores with
TtlOf(op) ==
    CASE op = "health_check" -> HealthTtl
      [] op = "investigate_incident" -> IncidentTtl
      [] op = "analyze_trends" -> TrendTtl

\* the data an operation stores: its workflow result and the clock reading
AgentData(op, t) == [result |-> "workflow_result", timestamp |-> isoformat(t)]

\* whether the body of an operation calls get_insight before it computes
ConsultsCache(op) == op = "generate_incident_report"

\* what one call of an operation at time t did: consulted says that it
\* called get_insight, invoked that it computed its workflow result (the
\* workflow collaborator of analyze_trends and generate_incident_report, the
\* result built in place of health_check and investigate_incident), from_cache
\* that the answer was the cached entry
Served(op, t) ==
    [ op |-> op, at |-> t, consulted |-> ConsultsCache(op), invoked |-> TRUE,
      from_cache |-> FALSE ]

\* self._cache after one call of a read-style operation: the result is
\* computed and stored whatever the cache holds
CacheAfterOp(op, t) == StoreInsight(InsightTypeOf(op), AgentData(op, t), TtlOf(op), t)

AgentOp(op) ==
    /\ served' = Served(op, now)
    /\ cache' = IF op \in ReadStyleOps THEN CacheAfterOp(op, now)
                ELSE CacheAfterGet(InsightTypeOf("investigate_incident"), now)
    /\ UNCHANGED <<now, got, policyVars, apiVars>>

\* SREAgent.health_check
SREAgent_health_check == AgentOp("health_check")

\* SREAgent.investigate_incident
SREAgent_investigate_incident == AgentOp("investigate_incident")

\* SREAgent.analyze_trends
SREAgent_analyze_trends == AgentOp("analyze_trends")

\* SREAgent.generate_incident_report: get_insight, then the workflow
SREAgent_generate_incident_report == AgentOp("generate_incident_report")

\* the agent serving read-style requests while the clock runs
InsightNext ==
    \/ Tick
    \/ SREAgent_health_check
    \/ SREAgent_investigate_incident
    \/ SREAgent_analyze_trends
    \/ SREAgent_generate_incident_report

InsightSpec == InitWith(DefaultConfig, NoToken) /\ [][InsightNext]_vars

(* ------------------------- sre_agent_api.py ---------------------------- *)
\* the mock user database; a permission list is the set of its members
USERS_DB ==
    [ admin |-> [ username |-> "admin", password |-> "admin123",
                  permissions |-> { "read", "write", "incident", "alert", "action",
                                    "metrics", "performance" } ],
      sre_engineer |-> [ username |-> "sre_engineer", password |-> "sre123",
                         permissions |-> { "read", "incident", "alert", "metrics",
                                           "performance" } ],
      viewer |-> [ username |-> "viewer", password |-> "view123",
                   permissions |-> {"read"} ] ]

\* the credentials a client may present
LoginNames == DOMAIN USERS_DB \cup {"mallory"}
LoginPasswords == {USERS_DB[u].password : u \in DOMAIN USERS_DB}

\* the endpoints that check a permission
GatedEndpoints ==
    {"investigate_incident", "monitor_alerts", "get_system_metrics", "get_performance_data"}

\* the endpoints that call the agent
AgentEndpoints == {"investigate_incident", "monitor_alerts"}

\* what the agent's method hands back: a result with or without "error"
AgentResults == {"ok", "error"}

\* the permission each endpoint looks for in the token
RequiredPermission(op) ==
    CASE op = "investigate_incident" -> "incident"
      [] op = "monitor_alerts" -> "alert"
      [] op = "get_system_metrics" -> "metrics"
      [] op = "get_performance_data" -> "performance"

\* the permission check letting every token with "read" through
Authorized_ReadSuffices(op, permissions) ==
    RequiredPermission(op) \in permissions \/ "read" \in permissions

\* the permission check asking for exactly the permissions of the endpoint
Authorized_ExactSet(op, permissions) ==
    permissions = {"read", RequiredPermission(op)}

\* the permission check of an endpoint: not ("x" not in permissions)
Authorized(op, permissions) == RequiredPermission(op) \in permissions

HTTPException(status_code, detail) == [status_code |-> status_code, detail |-> detail]

\* str(e) of an HTTPException
Str(e) == <<e.status_code, ": ", e.detail>>

\* the detail of the 403 each endpoint raises
InsufficientDetail(op) ==
    CASE op = "investigate_incident" -> "Insufficient permissions for incident investigation"
      [] op = "monitor_alerts" -> "Insufficient permissions for alert monitoring"
      [] op = "get_system_metrics" -> "Insufficient permissions for system metrics"
      [] op = "get_performance_data" -> "Insufficient permissions for performance data"

\* the text each endpoint's except branch puts before str(e)
FailPrefix(op) ==
    CASE op = "investigate_incident" -> "Incident investigation failed: "
      [] op = "monitor_alerts" -> "Alert monitoring failed: "
      [] op = "get_system_metrics" -> "Failed to get system metrics: "
      [] op = "get_performance_data" -> "Failed to get performance data: "

\* except Exception as e: raise HTTPException(status_code=500, ...)
Wrapped(op, e) == HTTPException(500, <<FailPrefix(op), Str(e)>>)

\* the response the exception handler builds from the last exception raised,
\* or the 200 of a returned body; raised keeps the exceptions in order
Responded(op, tk, raised, agent_called) ==
    [ op |-> op, sub |-> tk.sub, raised |-> raised, agent_called |-> agent_called,
      status_code |-> IF raised = <<>> THEN 200 ELSE raised[Len(raised)].status_code,
      error |-> IF raised = <<>> THEN None ELSE raised[Len(raised)].detail ]

\* an endpoint calling the agent before it looks at the permissions
EndpointResponse_AgentFirst(op, tk, res, t) ==
    IF t >= tk.exp
    THEN Responded(op, tk, <<HTTPException(401, "Token has expired")>>, FALSE)
    ELSE IF ~Authorized(op, tk.permissions)
    THEN Responded(op, tk, << HTTPException(403, InsufficientDetail(op)),
                              Wrapped(op, HTTPException(403, InsufficientDetail(op))) >>,
                   op \in AgentEndpoints)
    ELSE IF op \in AgentEndpoints /\ res = "error"
    THEN Responded(op, tk, << HTTPException(400, "error"),
                              Wrapped(op, HTTPException(400, "error")) >>,
                   TRUE)
    ELSE Responded(op, tk, <<>>, op \in AgentEndpoints)

\* one gated endpoint, called at time t with token payload tk, the agent
\* answering res: verify_token, then the try block and its except branch
EndpointResponse(op, tk, res, t) ==
    IF t >= tk.exp
    THEN Responded(op, tk, <<HTTPException(401, "Token has expired")>>, FALSE)
    ELSE IF ~Authorized(op, tk.permissions)
    THEN Responded(op, tk, << HTTPException(403, InsufficientDetail(op)),
                              Wrapped(op, HTTPException(403, InsufficientDetail(op))) >>,
                   FALSE)
    ELSE IF op \in AgentEndpoints /\ res = "error"
    THEN Responded(op, tk, << HTTPException(400, "error"),
                              Wrapped(op, HTTPException(400, "error")) >>,
                   TRUE)
    ELSE Responded(op, tk, <<>>, op \in AgentEndpoints)

\* POST /auth/login
login ==
    \E u \in LoginNames, pw \in LoginPasswords :
        /\ IF u \in DOMAIN USERS_DB /\ USERS_DB[u].password = pw
           THEN /\ token' = [ sub |-> USERS_DB[u].username,
                              permissions |-> USERS_DB[u].permissions,
                              exp |-> now + TokenLifetime ]
                /\ response' = Responded("login", [sub |-> u], <<>>, FALSE)
           ELSE /\ response' = Responded("login", [sub |-> u],
                                         <<HTTPException(401, "Invalid credentials")>>, FALSE)
                /\ UNCHANGED token
        /\ UNCHANGED <<now, policyVars, cacheVars>>

\* a request to a gated endpoint with the token the client holds; the agent
\* method an endpoint calls stores its result as the agent's own does
Endpoint(op) ==
    /\ token # NoToken
    /\ \E res \in AgentResults : response' = EndpointResponse(op, token, res, now)
    /\ IF response'.agent_called /\ op \in ReadStyleOps
       THEN /\ cache' = CacheAfterOp(op, now)
            /\ served' = Served(op, now)
       ELSE UNCHANGED <<cache, served>>
    /\ UNCHANGED <<now, token, policyVars, got>>

\* POST /incidents/investigate
investigate_incident == Endpoint("investigate_incident")

\* GET /alerts/monitor
monitor_alerts == Endpoint("monitor_alerts")

\* GET /metrics/system
get_system_metrics == Endpoint("get_system_metrics")

\* GET /performance/data
get_performance_data == Endpoint("get_performance_data")

\* a client logging in and calling the gated endpoints while the clock runs
ApiNext ==
    \/ Tick
    \/ login
    \/ investigate_incident
    \/ monitor_alerts
    \/ get_system_metrics
    \/ get_performance_data

ApiSpec == Init /\ [][ApiNext]_vars

\* every permission a token may list
Capabilities == UNION {USERS_DB[u].permissions : u \in DOMAIN USERS_DB}

\* a client holding a token, issued at the start, for any set of permissions
AuthInit ==
    \E G \in SUBSET Capabilities :
        InitWith(DefaultConfig,
                 [sub |-> "principal", permissions |-> G, exp |-> TokenLifetime])

\* the gated endpoints called with that token
AuthNext ==
    \/ Tick
    \/ investigate_incident
    \/ monitor_alerts
    \/ get_system_metrics
    \/ get_performance_data

AuthSpec == AuthInit /\ [][AuthNext]_vars

(* ------------------------ PermissionResolver --------------------------- *)
\* the words of a request text
Vocabulary == {"show", "me", "Incident", "metrics", "health", "ALERT", "remediate"}

\* str.lower() on the words of the vocabulary
Lower(w) ==
    CASE w = "Incident" -> "incident"
      [] w = "ALERT" -> "alert"
      [] OTHER -> w

\* the request texts, each the sequence of its words
Texts == UNION {[1..n -> Vocabulary] : n \in 0..MaxWords}

\* the lower-cased tokens of a text
Tokens(text) == {Lower(text[i]) : i \in 1..Len(text)}

\* the ordered rules: category, trigger keywords, required capabilities
Rules ==
    << [category |-> "health", keywords |-> {"health", "status"}, required |-> {"read"}],
       [category |-> "incident", keywords |-> {"incident"},
        required |-> {"read", "incident"}],
       [category |-> "alert", keywords |-> {"alert"}, required |-> {"read", "alert"}],
       [category |-> "action", keywords |-> {"action", "remediate"},
        required |-> {"read", "action"}],
       [category |-> "metrics", keywords |-> {"metrics", "performance"},
        required |-> {"read", "metrics"}] >>

\* what an input matching no rule requires
DefaultRequired == {"read"}

\* the rules with a trigger keyword among the tokens of the text
Matching(text) == {i \in 1..Len(Rules) : Rules[i].keywords \cap Tokens(text) # {}}

\* the classification taking the last matching rule
Classify_LastMatch(text) ==
    IF Matching(text) = {}
    THEN [category |-> "default", required |-> DefaultRequired]
    ELSE LET i == CHOOSE i \in Matching(text) : \A j \in Matching(text) : j <= i
         IN  [category |-> Rules[i].category, required |-> Rules[i].required]

\* the classification of a text: the first matching rule, top to bottom
Classify(text) ==
    IF Matching(text) = {}
    THEN [category |-> "default", required |-> DefaultRequired]
    ELSE LET i == CHOOSE i \in Matching(text) : \A j \in Matching(text) : i <= j
         IN  [category |-> Rules[i].category, required |-> Rules[i].required]

\* a request text arrives
submit ==
    \E text \in Texts :
        /\ response = NoCall
        /\ response' = [op |-> "request", text |-> text]
        /\ UNCHANGED <<now, token, policyVars, cacheVars>>

\* the text that arrived is classified
classify ==
    /\ response.op = "request"
    /\ response' = [ op |-> "classify", text |-> response.text,
                     category |-> Classify(response.text).category,
                     required |-> Classify(response.text).required ]
    /\ UNCHANGED <<now, token, policyVars, cacheVars>>

\* one request text, classified
ResolverNext ==
    \/ submit
    \/ classify

ResolverSpec == InitWith(DefaultConfig, NoToken) /\ [][ResolverNext]_vars

(* ----------- execute_action step by step, two concurrent callers -------- *)
\* caller c submits request r: the call of execute_action begins
Propose(c, r) ==
    /\ pc[c] \in {"idle", "executed", "rejected"}
    /\ Len(admissions) + Cardinality({d \in Callers : pc[d] = "proposed"}) < MaxAdmitted
    /\ pc' = [pc EXCEPT ![c] = "proposed"]
    /\ req' = [req EXCEPT ![c] = r]
    /\ via' = [via EXCEPT ![c] = "ActionPolicies.execute_action"]
    /\ ret' = [ret EXCEPT ![c] = NoResult]
    /\ result' = [result EXCEPT ![c] = NoResult]
    /\ invoked' = [invoked EXCEPT ![c] = <<>>]
    /\ evaluated' = [evaluated EXCEPT ![c] = <<>>]
    /\ UNCHANGED <<config, now, action_history, admissions, cacheVars, apiVars>>

\* await self.can_execute_action(...) and the early return of a blocked call
CheckAdmission(c) ==
    LET r == req[c]
        adm == AdmissionCheck(r.action_type, Get(r.params, "confidence", DefaultConfidence), now)
    IN  /\ pc[c] = "proposed"
        /\ evaluated' = [evaluated EXCEPT ![c] = adm.evaluated]
        /\ IF adm.allowed
           THEN /\ pc' = [pc EXCEPT ![c] = "admitted"]
                /\ admissions' = Append(admissions, now)
                /\ UNCHANGED ret
           ELSE /\ pc' = [pc EXCEPT ![c] = "rejected"]
                /\ ret' = [ret EXCEPT ![c] = ReturnValue(FALSE, NoResult)]
                /\ UNCHANGED admissions
        /\ UNCHANGED <<config, now, action_history, req, invoked, result, via,
                       cacheVars, apiVars>>

\* execute_action running the handler again after it raised
RunHandler_Retries(c) ==
    LET r == req[c]
    IN  /\ pc[c] = "admitted"
        /\ Len(invoked[c]) < 2
        /\ invoked' = [invoked EXCEPT ![c] = invoked[c] \o HandlerOf(r.action_type)]
        /\ \E t1, t2 \in now..(now + 1) :
             LET out == Dispatch(r.action_type, r.params, t1, t2)
             IN  /\ ClockReads(r.action_type, t1, t2, t2)
                 /\ now' = t2
                 /\ IF out.raised
                    THEN UNCHANGED <<pc, ret, result>>
                    ELSE /\ pc' = [pc EXCEPT ![c] = "handled"]
                         /\ result' = [result EXCEPT ![c] = out.result]
                         /\ UNCHANGED ret
        /\ UNCHANGED <<config, action_history, req, evaluated, via, admissions,
                       cacheVars, apiVars>>

\* the if/elif chain runs the handler; an exception goes to the except branch
RunHandler(c) ==
    LET r == req[c]
    IN  /\ pc[c] = "admitted"
        /\ invoked' = [invoked EXCEPT ![c] = invoked[c] \o HandlerOf(r.action_type)]
        /\ \E t1, t2 \in now..(now + 1) :
             LET out == Dispatch(r.action_type, r.params, t1, t2)
             IN  /\ ClockReads(r.action_type, t1, t2, t2)
                 /\ now' = t2
                 /\ IF out.raised
                    THEN /\ pc' = [pc EXCEPT ![c] = "executed"]
                         /\ ret' = [ret EXCEPT ![c] = ReturnValue(TRUE, out)]
                         /\ UNCHANGED result
                    ELSE /\ pc' = [pc EXCEPT ![c] = "handled"]
                         /\ result' = [result EXCEPT ![c] = out.result]
                         /\ UNCHANGED ret
        /\ UNCHANGED <<config, action_history, req, evaluated, via, admissions,
                       cacheVars, apiVars>>

\* self.action_history.append(...) and return result
RecordAction(c) ==
    LET r == req[c]
    IN  /\ pc[c] = "handled"
        /\ action_history' = HistoryAfter(TRUE, r, Returned(result[c]), now)
        /\ ret' = [ret EXCEPT ![c] = ReturnValue(TRUE, Returned(result[c]))]
        /\ pc' = [pc EXCEPT ![c] = "executed"]
        /\ UNCHANGED <<config, now, req, invoked, evaluated, result, via, admissions,
                       cacheVars, apiVars>>

\* the steps of caller c's call
StepOf(c) == CheckAdmission(c) \/ RunHandler(c) \/ RecordAction(c)

StepNext ==
    \/ Tick
    \/ \E c \in Callers : \E r \in StepRequests : Propose(c, r)
    \/ \E c \in Callers : CheckAdmission(c)
    \/ \E c \in Callers : RunHandler(c)
    \/ \E c \in Callers : RecordAction(c)

StepSpec == Init /\ [][StepNext]_vars

(* ============================== claims ================================= *)
PolicyEntries == {"ActionPolicies.execute_action", "SREAgent.execute_automated_action"}

AllChecks == <<"auto_remediation_enabled", "confidence", "rate_limit">>

\* the confidence execute_action hands to can_execute_action for request r
ConfidenceOf(r) == Get(r.params, "confidence", DefaultConfidence)

\* a step in which MainCaller's call of the policy engine ran: the request
\* is req', the state before the call is the unprimed state
PolicyCallStep ==
    /\ <<pc, req, ret, invoked, evaluated, via, action_history, admissions>>'
         # <<pc, req, ret, invoked, evaluated, via, action_history, admissions>>
    /\ via'[MainCaller] \in PolicyEntries

\* the call left no trace: rejected, no handler, history as before
NotExecuted ==
    /\ pc'[MainCaller] = "rejected"
    /\ invoked'[MainCaller] = <<>>
    /\ ret'[MainCaller].success = FALSE
    /\ action_history' = action_history

\* C1: a call whose confidence is strictly below auto_rollback_threshold is
\* not executed, whatever the action type and the history: no handler is
\* invoked and action_history is left as it was.
C1_LowConfidenceNotExecuted ==
    [][ (PolicyCallStep /\ ConfidenceOf(req'[MainCaller]) < config.auto_rollback_threshold)
          => NotExecuted ]_vars

\* a call rejected at the confidence check, with remediation enabled, room
\* in the window and a history that is not empty
C1_Witness ==
    /\ pc[MainCaller] = "rejected"
    /\ evaluated[MainCaller] = SubSeq(AllChecks, 1, 2)
    /\ "confidence" \in DOMAIN req[MainCaller].params
    /\ req[MainCaller].action_type = "update_config"
    /\ Len(action_history) >= 1
    /\ Len(RecentActions(now)) < config.max_auto_actions_per_incident

\* C3: with auto_remediation_enabled false every call is rejected, for every
\* confidence (1.0 included), action type and history: no handler runs and
\* nothing is appended.
C3_DisabledRejectsAll ==
    [][ (PolicyCallStep /\ ~config.auto_remediation_enabled) => NotExecuted ]_vars

\* a call with confidence 1.0 rejected at the kill switch while the history
\* holds a record and the window has room
C3_Witness ==
    /\ pc[MainCaller] = "rejected"
    /\ evaluated[MainCaller] = SubSeq(AllChecks, 1, 1)
    /\ ConfidenceOf(req[MainCaller]) = 100
    /\ Len(action_history) >= 1
    /\ Len(RecentActions(now)) < config.max_auto_actions_per_incident

\* C6: a rejected call leaves action_history unchanged, whichever admission
\* check rejected it.
C6_RejectedLeavesHistory ==
    [][ (PolicyCallStep /\ pc'[MainCaller] = "rejected")
          => action_history' = action_history ]_vars

\* a call with passing confidence rejected by the rate limit
C6_Witness ==
    /\ pc[MainCaller] = "rejected"
    /\ evaluated[MainCaller] = AllChecks
    /\ ConfidenceOf(req[MainCaller]) >= config.auto_rollback_threshold
    /\ Len(action_history) >= 1

\* the calls admitted in the trailing hour, read at time t
RecentAdmissions(t) == SelectSeq(admissions, LAMBDA a : t - a < Hour)

\* C2: the records inside the trailing hour never exceed
\* max_auto_actions_per_incident, and of the requests with passing confidence
\* submitted inside one window the first max_auto_actions_per_incident are
\* admitted and every later one is rejected: no window sees more admitted
\* calls than the limit.
C2_WindowAdmitsAtMostMax ==
    /\ Len(RecentActions(now)) <= config.max_auto_actions_per_incident
    /\ Len(RecentAdmissions(now)) <= config.max_auto_actions_per_incident

\* the first check of can_execute_action that fails for request r in the
\* state before the call
FirstFailing(r) ==
    IF ~config.auto_remediation_enabled THEN 1
    ELSE IF ConfidenceOf(r) < config.auto_rollback_threshold THEN 2
    ELSE 3

ClaimedReason(r) ==
    CASE FirstFailing(r) = 1 -> "policy_disabled"
      [] FirstFailing(r) = 2 -> "confidence_below_threshold"
      [] OTHER -> "rate_limit_exceeded"

C5_AdmittedAddsOneRecord ==
    [][ (PolicyCallStep /\ pc'[MainCaller] = "executed")
          => /\ Len(action_history') = Len(action_history) + 1
             /\ SubSeq(action_history', 1, Len(action_history)) = action_history
             /\ action_history'[Len(action_history')].result = ret'[MainCaller] ]_vars

\* the handler of request r raises
HandlerRaises(r) == Dispatch(r.action_type, r.params, now, now).raised

\* C7: when the handler of an admitted action raises, the call returns
\* success=false with the exception message as error, and a failure record
\* with that result is stored in action_history.
C7_RaiseReturnedAndRecorded ==
    [][ (PolicyCallStep /\ pc'[MainCaller] = "executed" /\ HandlerRaises(req'[MainCaller]))
          => /\ ret'[MainCaller] = [success |-> FALSE, error |-> FormatError]
             /\ action_history' =
                  Append(action_history,
                         ActionRecord(req'[MainCaller].action_type, req'[MainCaller].params,
                                      ret'[MainCaller], now')) ]_vars

\* a step in which MainCaller's call of an agent's execute_automated_action ran
AgentCallStep ==
    /\ <<pc, req, ret, invoked, evaluated, via, action_history, admissions>>'
         # <<pc, req, ret, invoked, evaluated, via, action_history, admissions>>
    /\ via'[MainCaller] \in {"SREAgent.execute_automated_action",
                             "MockSREAgent.execute_automated_action"}

\* C9: execute_automated_action of an agent, SREAgent or MockSREAgent,
\* returns a successful result only if the request passed the admission
\* checks of ActionPolicies.
C9_PolicyIsSoleGate ==
    [][ (AgentCallStep /\ ret'[MainCaller].success)
          => can_execute_action(req'[MainCaller].action_type,
                                ConfidenceOf(req'[MainCaller]), now) ]_vars

\* the callers whose call has been admitted and has not yet returned
InFlight == {c \in Callers : pc[c] \in {"admitted", "handled"}}

\* C8: under concurrent calls the rate-limit count, its comparison and the
\* append form one atomic step: the calls admitted and not yet recorded
\* together with the records in the window never exceed
\* max_auto_actions_per_incident, so two requests are never both admitted into
\* one remaining slot.
C8_AdmissionIsAtomic ==
    Len(RecentActions(now)) + Cardinality(InFlight) <= config.max_auto_actions_per_incident

Terminal == {"executed", "rejected"}

\* the state machine of one call: Proposed -> Admitted -> Executed, or
\* Proposed -> Rejected; "handled" is Admitted after its handler returned
Transitions ==
    { <<"idle", "proposed">>, <<"executed", "proposed">>, <<"rejected", "proposed">>,
      <<"proposed", "admitted">>, <<"proposed", "rejected">>,
      <<"admitted", "handled">>, <<"admitted", "executed">>, <<"handled", "executed">> }

\* C10: each call follows Proposed -> (Admitted -> Executed) | Rejected and
\* can always go on until it is Executed or Rejected; one call invokes at most
\* one handler at most once; a call that ended is never taken up again by the
\* engine: its outcome stays until the caller submits a new request.
C10_OneShotStateMachine ==
    /\ [](\A c \in Callers :
            /\ Len(invoked[c]) <= 1
            /\ pc[c] \in {"proposed", "admitted", "handled"} => ENABLED StepOf(c)
            /\ pc[c] \in Terminal => ~ENABLED StepOf(c))
    /\ [][\A c \in Callers :
            /\ pc'[c] # pc[c] => <<pc[c], pc'[c]>> \in Transitions
            /\ invoked'[c] # invoked[c] => pc[c] = "admitted" \/ pc'[c] = "proposed"
            /\ (pc[c] \in Terminal /\ pc'[c] \in Terminal)
                 => /\ ret'[c] = ret[c]
                    /\ invoked'[c] = invoked[c]
                    /\ evaluated'[c] = evaluated[c]]_vars

\* one caller's call ended Executed with a failure after its handler raised,
\* the other's ended Rejected, and a third call had been recorded
C10_Witness ==
    \E c, d \in Callers :
        /\ pc[c] = "executed"
        /\ ret[c] = Failure(FormatError)
        /\ invoked[c] = <<"open_slack_channel">>
        /\ pc[d] = "rejected"
        /\ Len(action_history) >= 1

(* ----------------------- handlers and dispatch ------------------------- *)
\* a step in which an admitted call of execute_action for action type a ran
AdmittedCallOf(a) ==
    /\ PolicyCallStep
    /\ pc'[MainCaller] = "executed"
    /\ req'[MainCaller].action_type = a

\* C11: an admitted trigger_auto_rollback whose params hold deployment_id = d
\* returns rollback_target = d and status = "rollback_initiated", for every d,
\* and that result is the one recorded.
C11_RollbackTargetsDeployment ==
    [][ (AdmittedCallOf("trigger_auto_rollback")
           /\ "deployment_id" \in DOMAIN req'[MainCaller].params)
          => /\ ret'[MainCaller].rollback_target = req'[MainCaller].params.deployment_id
             /\ ret'[MainCaller].status = "rollback_initiated"
             /\ action_history'[Len(action_history')].result = ret'[MainCaller] ]_vars

\* two rollbacks of different deployments, each recorded with its own target
C11_Witness ==
    /\ pc[MainCaller] = "executed"
    /\ req[MainCaller].action_type = "trigger_auto_rollback"
    /\ ret[MainCaller].rollback_target = "deploy-43"
    /\ ret[MainCaller].status = "rollback_initiated"
    /\ Len(action_history) = 2
    /\ action_history[1].result.rollback_target = "deploy-42"
    /\ action_history[2].result.rollback_target = "deploy-43"

\* C12: an admitted trigger_auto_rollback whose params hold no deployment_id
\* fails: the result is a failure and does not report "rollback_initiated"
\* with success.
C12_RollbackNeedsDeployment ==
    [][ (AdmittedCallOf("trigger_auto_rollback")
           /\ "deployment_id" \notin DOMAIN req'[MainCaller].params)
          => /\ ret'[MainCaller].success = FALSE
             /\ "status" \in DOMAIN ret'[MainCaller]
                  => ret'[MainCaller].status # "rollback_initiated" ]_vars

\* the records of open_jira_ticket calls
TicketRecords ==
    {i \in 1..Len(action_history) : action_history[i].action_type = "open_jira_ticket"}

\* C13: any two admitted open_jira_ticket executions return different
\* ticket_id values, also when both read the same clock tick.
C13_TicketIdsUnique ==
    \A i, j \in TicketRecords :
        i # j => action_history[i].result.ticket_id # action_history[j].result.ticket_id

\* C14: an admitted scale_service, restart_service or update_config call is
\* dispatched to a handler of its own, whose outcome is returned and
\* recorded; no member of ActionType is answered as an unknown action.
C14_EveryTypeHasHandler ==
    [][ \A a \in ActionType :
          AdmittedCallOf(a)
            => /\ invoked'[MainCaller] = <<a>>
               /\ ret'[MainCaller] # [success |-> FALSE, reason |-> "Unknown action type"]
               /\ action_history' # action_history => 
                    action_history'[Len(action_history')].result = ret'[MainCaller] ]_vars

(* --------------------------- insight cache ----------------------------- *)
\* a step in which the cache method op ran
CacheStep(op) == got'.op = op /\ <<cache, got>>' # <<cache, got>>

\* when the entry under key k was stored
StoredAt(k) == cache[k].timestamp[2]

\* the age of the entry under key k
AgeOf(k) == now - StoredAt(k)

\* C15 as stated: for every key, payload and ttl, get_insight with no time
\* elapsed since store_insight returns the payload, and get_insight returns
\* None once the clock is past ttl since the store.
C15_StoreThenGet ==
    [][ CacheStep("get_insight") =>
          LET k == got'.key
          IN  k \in DOMAIN cache =>
                /\ AgeOf(k) = 0 => got'.value = cache[k].data
                /\ AgeOf(k) > cache[k].ttl => got'.value = None ]_vars

\* C15 as amended: the same for every ttl greater than 0; an insight stored
\* with ttl 0 is absent already for a get_insight at the instant of the store.
C15_StoreThenGetPositiveTtl ==
    [][ CacheStep("get_insight") =>
          LET k == got'.key
          IN  k \in DOMAIN cache =>
                /\ (AgeOf(k) = 0 /\ cache[k].ttl > 0) => got'.value = cache[k].data
                /\ (AgeOf(k) = 0 /\ cache[k].ttl = 0) => got'.value = None
                /\ AgeOf(k) > cache[k].ttl => got'.value = None ]_vars

\* get_insight right after a store with the shortest positive ttl, later
\* than the start of the clock, returned the payload
C15_Witness ==
    /\ got.op = "get_insight"
    /\ got.key \in DOMAIN cache
    /\ now >= 1
    /\ AgeOf(got.key) = 0
    /\ cache[got.key].ttl = 1
    /\ got.value = cache[got.key].data

\* C16: get_insight returns the payload exactly when an entry exists for
\* the key and now - stored_at < ttl; an entry whose age has reached its ttl
\* (the boundary included) is never returned.
C16_ExpiredNeverReturned ==
    [][ CacheStep("get_insight") =>
          LET k == got'.key
          IN  got'.value = IF k \in DOMAIN cache /\ AgeOf(k) < cache[k].ttl
                           THEN cache[k].data
                           ELSE None ]_vars

\* get_insight returned None for an entry at the very instant its age
\* reached its ttl
C16_Witness ==
    /\ got.op = "get_insight"
    /\ got.key \in DOMAIN cache
    /\ cache[got.key].ttl >= 1
    /\ AgeOf(got.key) = cache[got.key].ttl
    /\ got.value = None

\* the payload a reader sees under key k at time t when the map is c
VisibleIn(c, k, t) ==
    IF k \in DOMAIN c /\ t - c[k].timestamp[2] < c[k].ttl THEN c[k].data ELSE None

\* C17: store_insight on a key replaces payload and ttl and sets stored_at
\* to the time of this store, leaving one entry per key and the other keys
\* as they were; get_insight then returns the newest payload, expiry being
\* measured from this store, also when the replaced entry had expired.
C17_LastWriteWins ==
    [][ CacheStep("store_insight") =>
          LET k == got'.key
          IN  /\ DOMAIN cache' = DOMAIN cache \cup {k}
              /\ \A j \in DOMAIN cache \ {k} : cache'[j] = cache[j]
              /\ cache'[k].data = got'.data
              /\ cache'[k].ttl = got'.ttl
              /\ cache'[k].timestamp[2] = now
              /\ VisibleIn(cache', k, now) = IF got'.ttl > 0 THEN got'.data ELSE None
              /\ VisibleIn(cache', k, now + got'.ttl) = None ]_vars

\* a store replaced an expired entry by another payload, which is now live
C17_Witness ==
    /\ got.op = "store_insight"
    /\ got.replaced # NoCall
    /\ got.replaced.expired
    /\ got.replaced.data # got.data
    /\ got.ttl >= 1
    /\ now >= 1
    /\ cache[got.key].data = got.data
    /\ AgeOf(got.key) = 0

\* C18: get_insight leaves the cache map as it was, for a key that is
\* absent, live or expired; reading an expired entry does not delete it.
C18_GetIsPureRead ==
    [][ CacheStep("get_insight") => cache' = cache ]_vars

\* an expired entry was read and is still in the map
C18_Witness ==
    /\ got.op = "get_insight"
    /\ got.value = None
    /\ got.key \in DOMAIN cache
    /\ AgeOf(got.key) > cache[got.key].ttl
    /\ \E j \in InsightTypes : j \notin DOMAIN cache

\* the fields store_insight gives an entry
EntryFields == {"data", "timestamp", "ttl"}

\* C19 as stated: get_all_insights returns every stored entry, the expired
\* ones included, each carrying a tag that tells whether it is expired at
\* the time of the call.
C19_AllEntriesTagged ==
    [][ CacheStep("get_all_insights") =>
          /\ DOMAIN got'.value = DOMAIN cache
          /\ \A k \in DOMAIN cache :
                /\ got'.value[k].data = cache[k].data
                /\ \E f \in DOMAIN got'.value[k] \ EntryFields :
                      got'.value[k][f] = (AgeOf(k) >= cache[k].ttl) ]_vars

\* C19 as amended: get_all_insights returns the map itself: every stored
\* entry, the expired ones included, each with its data, its timestamp and
\* its ttl and no other field.
C19_AllEntriesUntagged ==
    [][ CacheStep("get_all_insights") =>
          /\ got'.value = cache
          /\ \A k \in DOMAIN cache : DOMAIN got'.value[k] = EntryFields ]_vars

\* get_all_insights returned an entry that was expired and one that is live
C19_Witness ==
    /\ got.op = "get_all_insights"
    /\ \E k, j \in DOMAIN got.value :
          /\ got.value[k].ttl = 0
          /\ got.value[j].ttl >= 1
          /\ now - got.value[j].timestamp[2] < got.value[j].ttl

(* --------------------------- authorization ----------------------------- *)
\* a step in which a gated endpoint answered a request whose token was valid
AuthorizationStep ==
    /\ response' # response
    /\ response'.op \in GatedEndpoints
    /\ now < token.exp

\* the request was refused for lack of a permission
Refused(r) == \E i \in 1..Len(r.raised) : r.raised[i].status_code = 403

\* the capabilities the specification requires for an endpoint
RequiredCapabilities(op) == {"read", RequiredPermission(op)}

C21_AuthorizationMonotonic ==
    [][ (AuthorizationStep /\ ~Refused(response')) =>
          \A G2 \in SUBSET Capabilities :
              token.permissions \subseteq G2 =>
                \A res \in AgentResults :
                    ~Refused(EndpointResponse(response'.op,
                                              [token EXCEPT !.permissions = G2],
                                              res, now)) ]_vars

\* a token listing "alert" alone was let through alert monitoring
C21_Witness ==
    /\ response.op = "monitor_alerts"
    /\ response.status_code = 200
    /\ response.agent_called
    /\ token.permissions = {"alert"}

(* --------------------------- classification ---------------------------- *)
\* rule i has a trigger keyword among the lower-cased words of text t
Triggers(i, t) == \E n \in 1..Len(t) : Lower(t[n]) \in Rules[i].keywords

\* C22: classification is first-match-wins over the ordered rules health,
\* incident, alert, action, metrics: the required capabilities are those of
\* the first rule with a trigger keyword among the lower-cased tokens,
\* whatever later rule matches too; an input matching no rule requires
\* exactly {"read"}.
C22_FirstMatchWins ==
    response.op = "classify" =>
        /\ <<Rules[1].category, Rules[2].category, Rules[3].category,
              Rules[4].category, Rules[5].category>>
             = <<"health", "incident", "alert", "action", "metrics">>
        /\ \A i \in 1..Len(Rules) :
              (Triggers(i, response.text) /\ \A j \in 1..(i - 1) : ~Triggers(j, response.text))
                => /\ response.category = Rules[i].category
                   /\ response.required = Rules[i].required
        /\ (\A i \in 1..Len(Rules) : ~Triggers(i, response.text))
              => response.required = {"read"}

\* "show me Incident metrics" was classified as incident
C22_Witness ==
    /\ response.op = "classify"
    /\ response.text = <<"show", "me", "Incident", "metrics">>
    /\ response.category = "incident"
    /\ response.required = {"read", "incident"}

ReadStyleStep == served' # served /\ served'.op \in ReadStyleOps

\* C24 as stated: a read-style operation (incident investigation, trend
\* analysis, health check) consults the cache before it invokes the
\* collaborator, and when a live entry exists the request is answered from
\* the cache and the collaborator is not invoked again.
C24_LiveEntryServedFromCache ==
    [][ ReadStyleStep =>
          /\ served'.consulted
          /\ GetInsight(InsightTypeOf(served'.op), now) # None =>
                /\ served'.from_cache
                /\ ~served'.invoked
                /\ cache' = cache ]_vars

(* ----------------------------- rate limit ------------------------------- *)
\* the records whose age at the clock reading t has not reached one hour
InWindow(t) == {i \in 1..Len(action_history) : t - action_history[i].timestamp < Hour}

\* the request of the call passes the kill switch and the confidence check
PassesToRateLimit ==
    /\ config.auto_remediation_enabled
    /\ ConfidenceOf(req'[MainCaller]) >= config.auto_rollback_threshold

\* the call was admitted: its handler was dispatched
Admitted == pc'[MainCaller] = "executed" /\ evaluated'[MainCaller] = AllChecks

\* C25: the rate limit is a trailing window: a record stops counting once
\* its age reaches one hour, so a request that passes the other checks is
\* admitted exactly when fewer than max_auto_actions_per_incident records are
\* younger than one hour, however many older records the history holds.
C25_TrailingWindow ==
    [][ (PolicyCallStep /\ PassesToRateLimit) =>
          (Admitted <=> Cardinality(InWindow(now)) < config.max_auto_actions_per_incident)
      ]_vars

\* with a limit of one, a second action was admitted and recorded one hour
\* after the first
C25_Witness ==
    /\ config.max_auto_actions_per_incident = 1
    /\ Len(action_history) = 2
    /\ action_history[2].timestamp - action_history[1].timestamp >= Hour
    /\ pc[MainCaller] = "executed"
    /\ now = action_history[2].timestamp

\* a step that is one caller's can_execute_action and nothing else
AdmissionCheckStep == \E c \in Callers : pc[c] = "proposed" /\ pc'[c] # "proposed"

\* C26: the action history is append-only: records are never removed,
\* reordered or rewritten, so the history before a step is a prefix of the
\* history after it, and can_execute_action alone never changes it.
C26_HistoryAppendOnly ==
    [][ /\ Len(action_history') \in {Len(action_history), Len(action_history) + 1}
        /\ SubSeq(action_history', 1, Len(action_history)) = action_history
        /\ AdmissionCheckStep => action_history' = action_history ]_vars

\* two records one hour apart, the first still in the history, and a call
\* that the admission check turned away after reading the history
C26_Witness ==
    /\ Len(action_history) = 2
    /\ action_history[2].timestamp - action_history[1].timestamp >= Hour
    /\ pc[2] = "rejected"
    /\ evaluated[2] = AllChecks

C28_MissingConfidenceIsZero ==
    [][ (PolicyCallStep /\ "confidence" \notin DOMAIN req'[MainCaller].params) =>
          /\ config.auto_rollback_threshold > 0 => NotExecuted
          /\ ( /\ config.auto_rollback_threshold = 0
               /\ config.auto_remediation_enabled
               /\ Cardinality(InWindow(now)) < config.max_auto_actions_per_incident )
             => Admitted ]_vars

\* under the smallest threshold above zero a call without a confidence was
\* stopped at the confidence check, the window having room
C28_Witness ==
    /\ config.auto_rollback_threshold = 1
    /\ "confidence" \notin DOMAIN req[MainCaller].params
    /\ pc[MainCaller] = "rejected"
    /\ evaluated[MainCaller] = <<"auto_remediation_enabled", "confidence">>
    /\ invoked[MainCaller] = <<>>
    /\ Len(action_history) = 1
    /\ Len(action_history) < config.max_auto_actions_per_incident

\* C29 as stated: each gated endpoint answers a request whose token lacks
\* the capability with HTTP 403 and an "Insufficient permissions" detail,
\* not with any other error status.
C29_RefusalIs403 ==
    (response.op \in GatedEndpoints /\ Refused(response)) =>
        /\ response.status_code = 403
        /\ response.error = InsufficientDetail(response.op)

\* C30 as stated: the url of an open_jira_ticket result is jira_base_url,
\* "/browse/" and the ticket_id of the same result, also when the clock
\* advances between the two readings of the handler.
C30_UrlNamesTicket ==
    \A i \in TicketRecords :
        action_history[i].result.url =
            <<jira_base_url, "/browse/">> \o action_history[i].result.ticket_id
====
